---- MODULE Spec2Model ----
(***************************************************************************)
(* SpAN (kavanagh21/Span2): reversal detection over a flux series          *)
(* (span/inflection.py), the graph viewport (span/graph_widget.py), the    *)
(* main window's handlers (span/main_window.py) and the video sub-sampler  *)
(* (span/video_sampler.py).                                                *)
(*                                                                         *)
(* Python sequences are 0-based; TLA+ sequences are 1-based.  At(s, k)     *)
(* reads the element the source writes s[k].  Flux values are floats in    *)
(* the source; only their order is ever used, so they are integers here.  *)
(***************************************************************************)
EXTENDS Integers, Sequences, FiniteSets, TLC

(* ------------------------------ bounds -------------------------------- *)
\* longest sample sequence handed to detect_inflections directly
MaxLen == 7
\* successive samples of such a sequence differ by -MaxStep..MaxStep
MaxStep == 1
\* longest label list handed to get_inflection_points directly
MaxLabels == 5
\* the graph widget is 30, 40, .. 10 * MaxWidthTens pixels wide
MaxWidthTens == 4
\* a video holds at most MaxFrames frames
MaxFrames == 3
\* subsample_video is called directly with up to MaxIndices frame numbers
MaxIndices == 3
\* the graph widget is handed up to MaxRenderLen samples directly
MaxRenderLen == 3

(* ------------------------- span/inflection.py ------------------------- *)
NORMAL == "normal"
DOWN_TO_UP == "down->up"
UP_TO_DOWN == "up->down"
InflectionType == {NORMAL, DOWN_TO_UP, UP_TO_DOWN}

At(s, k) == s[k + 1]

Max(a, b) == IF a >= b THEN a ELSE b
Min(a, b) == IF a <= b THEN a ELSE b

\* a list built one entry short
AllNormal_OneShort(n) == [k \in 1..(n - 1) |-> NORMAL]

\* [InflectionType.NORMAL] * n
AllNormal(n) == [k \in 1..n |-> NORMAL]

\* the comparisons of the initial-direction loop with up and down exchanged
InitialPairDirection_Swapped(f, i) ==
    IF At(f, i) > At(f, i - 1) THEN "down"
    ELSE IF At(f, i) < At(f, i - 1) THEN "up"
    ELSE "flat"

\* direction of the pair (i-1, i) in the initial-direction loop: lines 45-50
InitialPairDirection(f, i) ==
    IF At(f, i) > At(f, i - 1) THEN "up"
    ELSE IF At(f, i) < At(f, i - 1) THEN "down"
    ELSE "flat"

\* the scan's comparison with an equal pair taken for a fall
PairDirection_EqualIsDown(f, i) ==
    IF At(f, i) > At(f, i - 1) THEN "up" ELSE "down"

\* local direction of the pair (i-1, i) in the scan loop: lines 57-62
PairDirection(f, i) ==
    IF At(f, i) > At(f, i - 1) THEN "up"
    ELSE IF At(f, i) < At(f, i - 1) THEN "down"
    ELSE "flat"

\* the down->up test without the second point after p
ValidDownToUp_NoLookahead(f, p) ==
    /\ p >= 2
    /\ p + 2 < Len(f)
    /\ At(f, p) < At(f, p + 1)
    /\ At(f, p) < At(f, p - 1)
    /\ At(f, p - 1) < At(f, p - 2)

\* the 5-point test of a down->up candidate at p: lines 70-77
ValidDownToUp(f, p) ==
    /\ p >= 2
    /\ p + 2 < Len(f)
    /\ At(f, p) < At(f, p + 1)
    /\ At(f, p + 1) < At(f, p + 2)
    /\ At(f, p) < At(f, p - 1)
    /\ At(f, p - 1) < At(f, p - 2)

\* the up->down test without p >= 2; Python reads flux[-1] from the end
ValidUpToDown_NoLowerBound(f, p) ==
    /\ p + 2 < Len(f)
    /\ At(f, p) > At(f, p + 1)
    /\ At(f, p + 1) > At(f, p + 2)
    /\ At(f, p) > At(f, p - 1)
    /\ At(f, p - 1) > At(f, (p - 2) % Len(f))

\* the 5-point test of an up->down candidate at p: lines 82-89
ValidUpToDown(f, p) ==
    /\ p >= 2
    /\ p + 2 < Len(f)
    /\ At(f, p) > At(f, p + 1)
    /\ At(f, p + 1) > At(f, p + 2)
    /\ At(f, p) > At(f, p - 1)
    /\ At(f, p - 1) > At(f, p - 2)

\* the candidate labelled with the direction string instead of the enum
LabelCandidate_DirectionString(f, lab, p, prev, cur) ==
    IF prev = "down" /\ cur = "up" /\ ValidDownToUp(f, p)
        THEN [lab EXCEPT ![p + 1] = cur]
    ELSE IF prev = "up" /\ cur = "down" /\ ValidUpToDown(f, p)
        THEN [lab EXCEPT ![p + 1] = cur]
    ELSE lab

\* the candidates labelled only when they are down->up
LabelCandidate_ValleysOnly(f, lab, p, prev, cur) ==
    IF prev = "down" /\ cur = "up" /\ ValidDownToUp(f, p)
        THEN [lab EXCEPT ![p + 1] = DOWN_TO_UP]
    ELSE lab

\* labels after the candidate at p = i-1 was examined: lines 64-90
LabelCandidate(f, lab, p, prev, cur) ==
    IF prev = "down" /\ cur = "up" /\ ValidDownToUp(f, p)
        THEN [lab EXCEPT ![p + 1] = DOWN_TO_UP]
    ELSE IF prev = "up" /\ cur = "down" /\ ValidUpToDown(f, p)
        THEN [lab EXCEPT ![p + 1] = UP_TO_DOWN]
    ELSE lab

\* the initial direction: the loop of lines 43-50, from index i on
RECURSIVE InitialDirection(_, _)
InitialDirection(f, i) ==
    IF i >= Len(f) THEN "none"
    ELSE IF InitialPairDirection(f, i) # "flat" THEN InitialPairDirection(f, i)
    ELSE InitialDirection(f, i + 1)

\* the scan loop of lines 56-92, from index i on
RECURSIVE ScanFrom(_, _, _, _)
ScanFrom(f, lab, prev, i) ==
    IF i >= Len(f) THEN lab
    ELSE LET cur == PairDirection(f, i) IN
         IF cur = "flat" THEN ScanFrom(f, lab, prev, i + 1)
         ELSE IF cur # prev
             THEN ScanFrom(f, LabelCandidate(f, lab, i - 1, prev, cur), cur, i + 1)
         ELSE ScanFrom(f, lab, prev, i + 1)

\* detect_inflections(flux).labels
detect_inflections(f) ==
    IF Len(f) < 5 THEN AllNormal(Len(f))
    ELSE IF InitialDirection(f, 1) = "none" THEN AllNormal(Len(f))
    ELSE ScanFrom(f, AllNormal(Len(f)), InitialDirection(f, 1), 2)

\* the loop of lines 113-118 without the test that skips Normal labels
RECURSIVE PointsFrom_NoNormalSkip(_, _, _, _)
PointsFrom_NoNormalSkip(f, lab, filter_type, i) ==
    IF i >= Len(lab) THEN <<>>
    ELSE IF filter_type # "None" /\ At(lab, i) # filter_type
        THEN PointsFrom_NoNormalSkip(f, lab, filter_type, i + 1)
    ELSE <<<<i, At(f, i), At(lab, i)>>>>
             \o PointsFrom_NoNormalSkip(f, lab, filter_type, i + 1)

\* the loop of lines 113-118 from index i on: the (i, flux[i], label) kept
RECURSIVE PointsFrom(_, _, _, _)
PointsFrom(f, lab, filter_type, i) ==
    IF i >= Len(lab) THEN <<>>
    ELSE IF At(lab, i) = NORMAL
        THEN PointsFrom(f, lab, filter_type, i + 1)
    ELSE IF filter_type # "None" /\ At(lab, i) # filter_type
        THEN PointsFrom(f, lab, filter_type, i + 1)
    ELSE <<<<i, At(f, i), At(lab, i)>>>> \o PointsFrom(f, lab, filter_type, i + 1)

\* get_inflection_points(flux, labels, filter_type); "None" is no filter
get_inflection_points(f, lab, filter_type) == PointsFrom(f, lab, filter_type, 0)

(* ------------------------ text <-> number ----------------------------- *)
\* a text is a sequence of characters
DigitChars == <<"0", "1", "2", "3", "4", "5", "6", "7", "8", "9">>
IsDigit(c) == \E d \in 1..10 : DigitChars[d] = c
DigitVal(c) == (CHOOSE d \in 1..10 : DigitChars[d] = c) - 1

\* str(n) for an int n >= 0: its decimal digits
RECURSIVE DecStr(_)
DecStr(n) ==
    IF n < 10 THEN <<DigitChars[n + 1]>>
    ELSE Append(DecStr(n \div 10), DigitChars[(n % 10) + 1])

\* the value of a non-empty run of digits
RECURSIVE DigitsVal(_)
DigitsVal(t) ==
    IF Len(t) = 0 THEN 0
    ELSE 10 * DigitsVal(SubSeq(t, 1, Len(t) - 1)) + DigitVal(t[Len(t)])

AllDigits(t) == Len(t) > 0 /\ \A k \in 1..Len(t) : IsDigit(t[k])

\* int(text) / float(text) on the texts tried: digits with an optional
\* leading minus sign; anything else raises ValueError (ok = FALSE)
ParseInt(t) ==
    IF AllDigits(t) THEN [ok |-> TRUE, val |-> DigitsVal(t)]
    ELSE IF Len(t) > 1 /\ t[1] = "-" /\ AllDigits(Tail(t))
        THEN [ok |-> TRUE, val |-> 0 - DigitsVal(Tail(t))]
    ELSE [ok |-> FALSE, val |-> 0]

(* ------------------------ span/graph_widget.py ------------------------ *)
\* the quotient returned as it is
points_per_screen_Unclamped(w, xs) ==
    IF xs <= 0 THEN 1 ELSE w \div xs

\* GraphWidget.points_per_screen, lines 76-79
points_per_screen(w, xs) ==
    IF xs <= 0 THEN 1 ELSE Max(1, w \div xs)

\* GraphWidget.points_per_screen, lines 77-79: the divisors of the // it
\* evaluates
PointsPerScreenDivisors(xs) == IF xs <= 0 THEN {} ELSE {xs}

\* the difference returned as it is
max_scroll_Unclamped(n, w, xs) == n - points_per_screen(w, xs)

\* GraphWidget.max_scroll, lines 81-82
max_scroll(n, w, xs) == Max(0, n - points_per_screen(w, xs))

\* self.setMinimumHeight(200): the height the widget is laid out with
GraphHeight == 200
\* self.x_step: int = 5
DefaultXStep == 5
\* self.y_high: float = 5000
DefaultYHigh == 5000

(* ------------------------ span/main_window.py ------------------------- *)
\* _apply_settings_to_graph, lines 461-468: float(text), kept on ValueError
ApplyFloat(t, old) == IF ParseInt(t).ok THEN ParseInt(t).val ELSE old

\* _apply_settings_to_graph, lines 469-472: max(1, int(text)), kept on ValueError
ApplyXStep(t, old) == IF ParseInt(t).ok THEN Max(1, ParseInt(t).val) ELSE old

\* _update_range_labels, lines 515-523: the text of the left label
RangeStartText(fl, vstart) ==
    IF fl = <<>> THEN <<"0">> ELSE DecStr(vstart + 1)

\* _update_range_labels, lines 515-523: the text of the right label
RangeEndText(fl, vend) ==
    IF fl = <<>> THEN <<"0">> ELSE DecStr(Min(vend + 1, Len(fl)))

\* _update_inflection_list, lines 538-541: the filter the combo box selects
FilterOfShow(idx) == IF idx = 0 THEN UP_TO_DOWN ELSE DOWN_TO_UP

\* the items written with the 0-based index
InflectionItems_ZeroBased(pts) ==
    [k \in 1..Len(pts) |-> <<DecStr(pts[k][1]), pts[k][2], pts[k][3]>>]

\* _update_inflection_list, lines 546-547: the item f"{idx + 1}\t{val}\t{type}"
\* of every point, as its three tab-separated fields
InflectionItems(pts) ==
    [k \in 1..Len(pts) |-> <<DecStr(pts[k][1] + 1), pts[k][2], pts[k][3]>>]

\* _on_subsample_video, lines 621-628: int() of the first field of the items
\* from position i on; an item that does not parse is skipped
RECURSIVE CollectIndices(_, _)
CollectIndices(items, i) ==
    IF i > Len(items) THEN <<>>
    ELSE IF ParseInt(items[i][1]).ok
        THEN <<ParseInt(items[i][1]).val>> \o CollectIndices(items, i + 1)
    ELSE CollectIndices(items, i + 1)

\* the empty-list test with the comparison turned round
NoInflectionItems_Never(items) == Len(items) < 0

\* _on_subsample_video, line 603: self.list_inflections.count() == 0
NoInflectionItems(items) == Len(items) = 0

(* ------------------------ span/video_sampler.py ----------------------- *)
\* sorted(set(frame_indices)), line 80
RECURSIVE SortedSet(_)
SortedSet(S) ==
    IF S = {} THEN <<>>
    ELSE LET m == CHOOSE x \in S : \A y \in S : x <= y
         IN <<m>> \o SortedSet(S \ {m})
SeqRange(q) == {q[k] : k \in 1..Len(q)}

\* the frame numbers taken in the order and number they were passed
sorted_indices_AsGiven(frame_indices) == frame_indices

sorted_indices(frame_indices) == SortedSet(SeqRange(frame_indices))

\* the empty-argument test left out
NoFrameIndices_Never(frame_indices) == FALSE

\* line 47: not frame_indices
NoFrameIndices(frame_indices) == Len(frame_indices) = 0

\* lines 38-117 as the caller sees them: the call raises one of
\* FileNotFoundError, ValueError, RuntimeError, or, given frame numbers, it
\* may return
VideoOutcomes(frame_indices) ==
    IF NoFrameIndices(frame_indices) THEN {"raised"}
    ELSE {"raised", "returned"}

\* lines 81-85: the files k_<seq_num> copied, each with the frame it holds
SelectedFiles(frame_indices, nframes) ==
    LET si == sorted_indices(frame_indices)
    IN {[k |-> seq_num, frame |-> si[seq_num]] :
           seq_num \in {j \in 1..Len(si) : si[j] \in 1..nframes}}

(* ------------------------------- state -------------------------------- *)
VARIABLES
    s_pc,            \* position of a direct call of get_inflection_points
    s_flux,          \* its argument flux
    s_labels,        \* its argument labels
    s_filter,        \* its argument filter_type
    s_points,        \* the list it returned
    d_pc,            \* position inside a call of detect_inflections
    d_flux,          \* its argument flux
    d_labels,        \* its local labels
    prev_direction,  \* its local prev_direction ("none" for None)
    d_i,             \* the loop index i of the loop it is in
    d_cands          \* the candidate points p raised so far, in order

dvars == <<d_pc, d_flux, d_labels, prev_direction, d_i, d_cands>>
svars == <<s_pc, s_flux, s_labels, s_filter, s_points>>

VARIABLES
    flux,             \* MainWindow.flux
    labels,           \* MainWindow.labels
    video_path,       \* MainWindow.video_path
    cmb_show,         \* current index of the Show combo box
    list_inflections, \* items of the inflection list, each split at its tabs
    points,           \* the list _update_inflection_list last got back
    lbl_range_start,  \* text of the left range label
    lbl_range_end,    \* text of the right range label
    scrollbar_value,  \* QScrollBar value
    scrollbar_max,    \* QScrollBar maximum
    msg,              \* title of the message box the latest event showed
    video_call,       \* whether it called subsample_video, and with what
    graph_flux,       \* GraphWidget.flux
    graph_labels,     \* GraphWidget.labels
    y_low,            \* GraphWidget.y_low
    y_high,           \* GraphWidget.y_high
    x_step,           \* GraphWidget.x_step
    scroll_offset,    \* GraphWidget.scroll_offset
    visible_start,    \* GraphWidget.visible_start
    visible_end,      \* GraphWidget.visible_end
    width,            \* GraphWidget.width()
    dirty             \* a paint event requested by update() is pending

wvars == <<flux, labels, video_path, cmb_show, list_inflections, points,
           lbl_range_start, lbl_range_end, scrollbar_value, scrollbar_max,
           msg, video_call>>
gvars == <<graph_flux, graph_labels, y_low, y_high, x_step, scroll_offset,
           visible_start, visible_end, width, dirty>>

VARIABLES
    v_pc,             \* position inside a call of subsample_video
    v_frame_indices,  \* its argument frame_indices
    v_runs,           \* ffmpeg subprocesses started by the call
    v_nframes,        \* frames the extraction wrote, frame_000001 ..
    v_selected,       \* files in the selected directory
    v_error           \* the exception the call raised, "" for none

vvars == <<v_pc, v_frame_indices, v_runs, v_nframes, v_selected, v_error>>

VARIABLES
    painted,          \* what the latest event's run of _paint did
    ret               \* what the latest direct call of a widget method returned

cvars == <<painted, ret>>

vars == <<dvars, svars, wvars, gvars, vvars, cvars>>

\* all sequences over S of length lo..hi
SeqsOf(S, lo, hi) == UNION {[1..k -> S] : k \in lo..hi}

\* the sequence that starts at 0 and moves by the steps ds
RECURSIVE WalkSum(_, _)
WalkSum(ds, k) == IF k = 0 THEN 0 ELSE WalkSum(ds, k - 1) + ds[k]
WalkOf(ds) == [k \in 1..(Len(ds) + 1) |-> WalkSum(ds, k - 1)]

\* the arguments tried: the empty list and every sequence of 1..MaxLen
\* samples from 0 by steps in -MaxStep..MaxStep.  detect_inflections only
\* ever compares neighbouring samples, so these cover every order pattern.
FluxInputs ==
    {<<>>} \cup {WalkOf(ds) : ds \in SeqsOf(-MaxStep..MaxStep, 0, MaxLen - 1)}

\* no call of detect_inflections is being followed
DetectIdle ==
    /\ d_pc = "idle"
    /\ d_flux = <<>>
    /\ d_labels = <<>>
    /\ prev_direction = "none"
    /\ d_i = 0
    /\ d_cands = <<>>

\* no direct call of get_inflection_points is being followed
SelectIdle ==
    /\ s_pc = "idle"
    /\ s_flux = <<>>
    /\ s_labels = <<>>
    /\ s_filter = "None"
    /\ s_points = <<>>

\* the widths the graph widget is given
Widths == {10 * k : k \in 3..MaxWidthTens}
\* the texts typed into the X Step field
XStepTexts == {<<"x">>, <<"0">>, <<"5">>}
\* the texts typed into the Y High field
YHighTexts == {<<"0">>, <<"5", "0", "0", "0">>}
\* the Y Low field keeps its default text
TxtLow == <<"0">>
\* the flux columns of the data files opened
DataFiles == {
    <<3, 2, 1, 2, 3, 2, 1, 2, 3>>,
    <<5, 3, 1, 2, 4, 6>>,
    <<2, 1, 2>> }

\* the labels left all Normal whatever the samples are
ParsedLabels_AllNormal == [f \in DataFiles |-> AllNormal(Len(f))]

\* line 438: detect_inflections(self.flux).labels for each of these files
ParsedLabels == [f \in DataFiles |-> detect_inflections(f)]

\* the latest event did not call subsample_video
NoCall == [called |-> FALSE, frame_indices |-> <<>>]

\* the latest event did not run _paint
NoPaint == [returned |-> "none", divisors |-> {}, mapped |-> {},
            flux_read |-> {}, labels_read |-> {}]

\* the latest event was not a direct call of a widget method
NoRet == [fn |-> "none", val |-> 0, divisors |-> {}]

\* MainWindow.__init__ has run: the window's own fields and widgets
MainWindowConstructed ==
    /\ flux = <<>>
    /\ labels = <<>>
    /\ video_path = ""
    /\ cmb_show = 0
    /\ list_inflections = <<>>
    /\ points = <<>>
    /\ lbl_range_start = <<"0">>
    /\ lbl_range_end = <<"0">>
    /\ scrollbar_value = 0
    /\ scrollbar_max = 0
    /\ msg = ""
    /\ video_call = NoCall

\* MainWindow.__init__ and GraphWidget.__init__ have run
WindowConstructed ==
    /\ MainWindowConstructed
    /\ graph_flux = <<>>
    /\ graph_labels = <<>>
    /\ y_low = 0
    /\ y_high = DefaultYHigh
    /\ x_step = DefaultXStep
    /\ scroll_offset = 0
    /\ visible_start = 0
    /\ visible_end = 0
    /\ dirty = TRUE
    /\ painted = NoPaint
    /\ ret = NoRet

\* no call of subsample_video is running
VideoIdle ==
    /\ v_pc = "idle"
    /\ v_frame_indices = <<>>
    /\ v_runs = 0
    /\ v_nframes = 0
    /\ v_selected = {}
    /\ v_error = ""

\* the window as constructed, at the smallest width, with no call running
AppIdle ==
    /\ WindowConstructed
    /\ width = 30
    /\ VideoIdle

(* --------------------- the window's event handlers -------------------- *)
\* the window's event loop runs: no direct call of subsample_video is followed
Ready == v_pc = "idle"

\* what an event leaves behind when it shows no box and makes no call
Quiet == msg' = "" /\ video_call' = NoCall

\* what an event leaves behind when it neither runs _paint nor is a direct
\* call of a widget method
Unpainted == painted' = NoPaint /\ ret' = NoRet

\* _update_graph, lines 494-508, for the window data fl, lab and the texts
\* tx, ty found in the X Step and Y High fields: the settings are applied,
\* set_data resets the offset and requests a repaint, the scrollbar gets its
\* new maximum and the range labels are rewritten.
\* QScrollBar.setMaximum re-bounds the value: a value above the new maximum
\* becomes the maximum and valueChanged runs _on_scroll with it.
UpdateGraphEffect(fl, lab, tx, ty) ==
    LET xs == ApplyXStep(tx, x_step)
        ms == max_scroll(Len(fl), width, xs)
        clamp == scrollbar_value > ms
    IN /\ y_low' = ApplyFloat(TxtLow, y_low)
       /\ y_high' = ApplyFloat(ty, y_high)
       /\ x_step' = xs
       /\ graph_flux' = fl
       /\ graph_labels' = lab
       /\ scroll_offset' = IF clamp THEN ms ELSE 0
       /\ dirty' = TRUE
       /\ scrollbar_max' = ms
       /\ scrollbar_value' = IF clamp THEN ms ELSE scrollbar_value
       /\ lbl_range_start' = RangeStartText(fl, visible_start)
       /\ lbl_range_end' = RangeEndText(fl, visible_end)
       /\ UNCHANGED <<visible_start, visible_end, width>>

\* the list left as it was
UpdateInflectionListEffect_Stale(fl, lab, idx) ==
    UNCHANGED <<list_inflections, points>>

\* _update_inflection_list, lines 529-553, for the data fl, lab and the
\* combo index idx
UpdateInflectionListEffect(fl, lab, idx) ==
    IF fl = <<>>
        THEN /\ list_inflections' = <<>>
             /\ UNCHANGED points
        ELSE LET pts == get_inflection_points(fl, lab, FilterOfShow(idx))
             IN /\ points' = pts
                /\ list_inflections' = InflectionItems(pts)

\* _on_find_data, lines 421-443: a file was chosen and parsed
OnFindData ==
    /\ Ready
    /\ \E f \in DataFiles, tx \in XStepTexts, ty \in YHighTexts :
          LET lab == ParsedLabels[f]
          IN /\ flux' = f
             /\ labels' = lab
             /\ UpdateGraphEffect(f, lab, tx, ty)
             /\ cmb_show' = 1
             /\ UpdateInflectionListEffect(f, lab, 1)
    /\ Quiet
    /\ Unpainted
    /\ UNCHANGED <<video_path, dvars, svars, vvars>>

\* _on_find_data, lines 431-435: parse_flux_file raised
OnFindDataError ==
    /\ Ready
    /\ msg' = "Error Loading Data"
    /\ video_call' = NoCall
    /\ Unpainted
    /\ UNCHANGED <<flux, labels, video_path, cmb_show, list_inflections,
                   points, lbl_range_start, lbl_range_end, scrollbar_value,
                   scrollbar_max, gvars, dvars, svars, vvars>>

\* _on_find_video, lines 445-454: a video file was chosen
OnFindVideo ==
    /\ Ready
    /\ video_path' = "video.mp4"
    /\ Quiet
    /\ Unpainted
    /\ UNCHANGED <<flux, labels, cmb_show, list_inflections, points,
                   lbl_range_start, lbl_range_end, scrollbar_value,
                   scrollbar_max, gvars, dvars, svars, vvars>>

\* _update_graph as a slot, lines 276 and 286-295: the Update button or a
\* display checkbox
UpdateGraph ==
    /\ Ready
    /\ \E tx \in XStepTexts, ty \in YHighTexts :
          UpdateGraphEffect(flux, labels, tx, ty)
    /\ Quiet
    /\ Unpainted
    /\ UNCHANGED <<flux, labels, video_path, cmb_show, list_inflections,
                   points, dvars, svars, vvars>>

\* _on_scroll, lines 510-513: the user moved the scrollbar to value
OnScroll ==
    /\ Ready
    /\ \E value \in (0..scrollbar_max) \ {scrollbar_value} :
          /\ scrollbar_value' = value
          /\ scroll_offset' = value
    /\ dirty' = TRUE
    /\ lbl_range_start' = RangeStartText(flux, visible_start)
    /\ lbl_range_end' = RangeEndText(flux, visible_end)
    /\ Quiet
    /\ Unpainted
    /\ UNCHANGED <<flux, labels, video_path, cmb_show, list_inflections,
                   points, scrollbar_max, graph_flux, graph_labels, y_low,
                   y_high, x_step, visible_start, visible_end, width, dvars,
                   svars, vvars>>

\* the user picks the other entry of the Show combo box:
\* currentIndexChanged runs _update_inflection_list, line 283
OnShowChanged ==
    /\ Ready
    /\ cmb_show' = 1 - cmb_show
    /\ UpdateInflectionListEffect(flux, labels, 1 - cmb_show)
    /\ Quiet
    /\ Unpainted
    /\ UNCHANGED <<flux, labels, video_path, lbl_range_start, lbl_range_end,
                   scrollbar_value, scrollbar_max, gvars, dvars, svars, vvars>>

\* the rest of the window during an event of the graph widget
WidgetEvent ==
    /\ Quiet
    /\ ret' = NoRet
    /\ UNCHANGED <<flux, labels, video_path, cmb_show, list_inflections,
                   points, lbl_range_start, lbl_range_end, scrollbar_value,
                   scrollbar_max, dvars, svars, vvars>>

\* the window is resized: the widget gets another width and is repainted
Resize ==
    /\ Ready
    /\ \E w \in Widths \ {width} : width' = w
    /\ dirty' = TRUE
    /\ painted' = NoPaint
    /\ UNCHANGED <<graph_flux, graph_labels, y_low, y_high, x_step,
                   scroll_offset, visible_start, visible_end>>
    /\ WidgetEvent

\* the range test that lets a flat range through
DegenerateRange_OnlyNegative(lo, hi) == hi - lo < 0

\* GraphWidget._paint, lines 107-109: y_range <= 0
DegenerateRange(lo, hi) == hi - lo <= 0

\* GraphWidget._paint, lines 99-156, returns before the data is drawn
PaintReturnsEarly ==
    \/ width <= 0 \/ GraphHeight <= 0
    \/ DegenerateRange(y_low, y_high)
    \/ Len(graph_flux) = 0

\* GraphWidget._paint, line 158: start
PaintStart(off) == Max(0, off)

\* the end of the drawn range not held to the number of samples
PaintEnd_Unclamped(n, start, fpr) == start + fpr + 1

\* GraphWidget._paint, line 160: end
PaintEnd(n, start, fpr) == Min(n, start + fpr + 1)

\* GraphWidget._paint, lines 99-189, with highlight_inversions as given:
\* where it returned, the divisors flux_to_y is defined with, the sample
\* indices i whose flux[i] went through flux_to_y, and the indices read from
\* flux and from labels
PaintTrace(highlight) ==
    IF width <= 0 \/ GraphHeight <= 0
        THEN [NoPaint EXCEPT !.returned = "size"]
    ELSE IF DegenerateRange(y_low, y_high)
        THEN [NoPaint EXCEPT !.returned = "range"]
    ELSE IF Len(graph_flux) = 0
        THEN [NoPaint EXCEPT !.returned = "empty",
                             !.divisors = {y_high - y_low}]
    ELSE LET n == Len(graph_flux)
             start == PaintStart(scroll_offset)
             fpr == points_per_screen(width, x_step)
             end == PaintEnd(n, start, fpr)
             loop == start..(end - 1)
             first == IF start < n THEN {start} ELSE {}
         IN [returned |-> "end",
             divisors |-> {y_high - y_low},
             mapped |-> first \cup loop,
             flux_read |-> first \cup loop
                             \cup {i - 1 : i \in {j \in loop : j > start}},
             labels_read |-> IF highlight
                                THEN {i \in loop : i < Len(graph_labels)}
                                ELSE {}]

\* GraphWidget._paint, lines 99-189: the range cached by a paint and what
\* the paint did; highlight_inversions is found on or off
PaintEffect ==
    /\ \E highlight \in BOOLEAN : painted' = PaintTrace(highlight)
    /\ IF PaintReturnsEarly
          THEN UNCHANGED <<visible_start, visible_end>>
          ELSE LET n == Len(graph_flux)
                   start == PaintStart(scroll_offset)
                   fpr == points_per_screen(width, x_step)
                   end == PaintEnd(n, start, fpr)
               IN /\ visible_start' = start
                  /\ visible_end' = end - 1

\* paintEvent, lines 93-97: the pending paint event is delivered
Paint ==
    /\ Ready
    /\ dirty
    /\ dirty' = FALSE
    /\ PaintEffect
    /\ UNCHANGED <<graph_flux, graph_labels, y_low, y_high, x_step,
                   scroll_offset, width>>
    /\ WidgetEvent

\* to_pixmap, lines 84-91, from Copy Graph or Save Graph: _paint runs on a
\* pixmap, the pending paint event stays pending
ToPixmap ==
    /\ Ready
    /\ PaintEffect
    /\ UNCHANGED <<graph_flux, graph_labels, y_low, y_high, x_step,
                   scroll_offset, width, dirty>>
    /\ WidgetEvent

\* what _on_subsample_video leaves alone
SubsampleFrame ==
    /\ Unpainted
    /\ UNCHANGED <<flux, labels, video_path, cmb_show, list_inflections,
                   points, lbl_range_start, lbl_range_end, scrollbar_value,
                   scrollbar_max, gvars, dvars, svars, vvars>>

\* _on_subsample_video, lines 597-601
OnSubsampleNoVideo ==
    /\ Ready
    /\ video_path = ""
    /\ msg' = "No Video"
    /\ video_call' = NoCall
    /\ SubsampleFrame

\* _on_subsample_video, lines 603-609
OnSubsampleNoPoints ==
    /\ Ready
    /\ video_path # ""
    /\ NoInflectionItems(list_inflections)
    /\ msg' = "No Inflection Points"
    /\ video_call' = NoCall
    /\ SubsampleFrame

\* _on_subsample_video, lines 611-618: find_ffmpeg() found nothing
OnSubsampleNoFfmpeg ==
    /\ Ready
    /\ video_path # ""
    /\ ~NoInflectionItems(list_inflections)
    /\ msg' = "ffmpeg Not Found"
    /\ video_call' = NoCall
    /\ SubsampleFrame

\* _on_subsample_video, lines 620-653: the indices are read back from the
\* list; without any the handler returns silently, else subsample_video is
\* called with them and its return or its exception is reported
OnSubsampleCall ==
    /\ Ready
    /\ video_path # ""
    /\ ~NoInflectionItems(list_inflections)
    /\ LET frame_indices == CollectIndices(list_inflections, 1)
       IN IF frame_indices = <<>>
             THEN Quiet
             ELSE /\ video_call' = [called |-> TRUE,
                                    frame_indices |-> frame_indices]
                  /\ \E outcome \in VideoOutcomes(frame_indices) :
                        msg' = IF outcome = "returned" THEN "Video Complete"
                               ELSE "Video Error"
    /\ SubsampleFrame

(* ------------------ subsample_video, one step at a time --------------- *)
\* what a step of subsample_video leaves alone
VideoFrame ==
    UNCHANGED <<wvars, gvars, dvars, svars, cvars, v_frame_indices>>

\* lines 38-42: find_ffmpeg() found nothing
VideoNoFfmpeg ==
    /\ v_pc = "check"
    /\ v_pc' = "raised"
    /\ v_error' = "FileNotFoundError: ffmpeg"
    /\ UNCHANGED <<v_runs, v_nframes, v_selected>>
    /\ VideoFrame

\* lines 44-45: the video file does not exist
VideoNoFile ==
    /\ v_pc = "check"
    /\ v_pc' = "raised"
    /\ v_error' = "FileNotFoundError: video"
    /\ UNCHANGED <<v_runs, v_nframes, v_selected>>
    /\ VideoFrame

\* lines 47-48: ffmpeg and the file are there, frame_indices is empty
VideoNoIndices ==
    /\ v_pc = "check"
    /\ NoFrameIndices(v_frame_indices)
    /\ v_pc' = "raised"
    /\ v_error' = "ValueError"
    /\ UNCHANGED <<v_runs, v_nframes, v_selected>>
    /\ VideoFrame

\* lines 38-61: all three checks passed, the work directories are emptied
VideoPrepare ==
    /\ v_pc = "check"
    /\ ~NoFrameIndices(v_frame_indices)
    /\ v_pc' = "extract"
    /\ v_selected' = {}
    /\ UNCHANGED <<v_runs, v_nframes, v_error>>
    /\ VideoFrame

\* lines 64-74: the extraction subprocess ran and failed
VideoExtractFailed ==
    /\ v_pc = "extract"
    /\ v_runs' = v_runs + 1
    /\ v_pc' = "raised"
    /\ v_error' = "RuntimeError: extraction"
    /\ UNCHANGED <<v_nframes, v_selected>>
    /\ VideoFrame

\* lines 64-77: the extraction subprocess wrote frame_000001 .. frame_<n>
VideoExtract ==
    /\ v_pc = "extract"
    /\ v_runs' = v_runs + 1
    /\ \E n \in 0..MaxFrames : v_nframes' = n
    /\ v_pc' = "select"
    /\ UNCHANGED <<v_selected, v_error>>
    /\ VideoFrame

\* lines 79-88: the selected frames are copied under sequential names
VideoSelect ==
    /\ v_pc = "select"
    /\ v_selected' = SelectedFiles(v_frame_indices, v_nframes)
    /\ v_pc' = "assemble"
    /\ UNCHANGED <<v_runs, v_nframes, v_error>>
    /\ VideoFrame

\* lines 95-109: the assembly subprocess ran and failed
VideoAssembleFailed ==
    /\ v_pc = "assemble"
    /\ v_runs' = v_runs + 1
    /\ v_pc' = "raised"
    /\ v_error' = "RuntimeError: assembly"
    /\ UNCHANGED <<v_nframes, v_selected>>
    /\ VideoFrame

\* lines 95-117: the assembly subprocess ran, the work directory is removed
VideoAssemble ==
    /\ v_pc = "assemble"
    /\ v_runs' = v_runs + 1
    /\ v_pc' = "returned"
    /\ v_nframes' = 0
    /\ v_selected' = {}
    /\ UNCHANGED v_error
    /\ VideoFrame

\* the frame numbers a direct caller passes
IndexInputs == SeqsOf(1..(MaxFrames + 1), 0, MaxIndices)

\* the window after construction, or a direct call of subsample_video
Init ==
    /\ DetectIdle
    /\ SelectIdle
    /\ WindowConstructed
    /\ \/ /\ width \in Widths
          /\ VideoIdle
       \/ /\ width = 30
          /\ v_pc = "check"
          /\ v_frame_indices \in IndexInputs
          /\ v_runs = 0
          /\ v_nframes = 0
          /\ v_selected = {}
          /\ v_error = ""

Next ==
    \/ OnFindData
    \/ OnFindDataError
    \/ OnFindVideo
    \/ UpdateGraph
    \/ OnScroll
    \/ OnShowChanged
    \/ Resize
    \/ Paint
    \/ ToPixmap
    \/ OnSubsampleNoVideo
    \/ OnSubsampleNoPoints
    \/ OnSubsampleNoFfmpeg
    \/ OnSubsampleCall
    \/ VideoNoFfmpeg
    \/ VideoNoFile
    \/ VideoNoIndices
    \/ VideoPrepare
    \/ VideoExtractFailed
    \/ VideoExtract
    \/ VideoSelect
    \/ VideoAssembleFailed
    \/ VideoAssemble

Spec == Init /\ [][Next]_vars

(* ------------- detect_inflections, one statement at a time ------------ *)
InitDetect ==
    /\ SelectIdle
    /\ AppIdle
    /\ d_pc = "entry"
    /\ d_flux \in FluxInputs
    /\ d_labels = <<>>
    /\ prev_direction = "none"
    /\ d_i = 0
    /\ d_cands = <<>>

\* lines 36-40: too short, return the all-Normal list
DetectShort ==
    /\ d_pc = "entry"
    /\ Len(d_flux) < 5
    /\ d_labels' = AllNormal(Len(d_flux))
    /\ d_pc' = "return"
    /\ UNCHANGED <<d_flux, prev_direction, d_i, d_cands, svars, wvars, gvars, vvars, cvars>>

\* lines 36-44: long enough, enter the initial-direction loop at i = 1
DetectEnter ==
    /\ d_pc = "entry"
    /\ Len(d_flux) >= 5
    /\ d_labels' = AllNormal(Len(d_flux))
    /\ d_i' = 1
    /\ d_pc' = "init"
    /\ UNCHANGED <<d_flux, prev_direction, d_cands, svars, wvars, gvars, vvars, cvars>>

\* lines 44-50: the pair (i-1, i) is equal, next i
InitSkip ==
    /\ d_pc = "init"
    /\ d_i < Len(d_flux)
    /\ InitialPairDirection(d_flux, d_i) = "flat"
    /\ d_i' = d_i + 1
    /\ UNCHANGED <<d_pc, d_flux, d_labels, prev_direction, d_cands, svars, wvars, gvars, vvars, cvars>>

\* lines 45-50 and 56: the first unequal pair sets prev_direction; break
InitFound ==
    /\ d_pc = "init"
    /\ d_i < Len(d_flux)
    /\ InitialPairDirection(d_flux, d_i) # "flat"
    /\ prev_direction' = InitialPairDirection(d_flux, d_i)
    /\ d_i' = 2
    /\ d_pc' = "scan"
    /\ UNCHANGED <<d_flux, d_labels, d_cands, svars, wvars, gvars, vvars, cvars>>

\* lines 52-53: no unequal pair anywhere
InitNone ==
    /\ d_pc = "init"
    /\ d_i >= Len(d_flux)
    /\ d_pc' = "return"
    /\ UNCHANGED <<d_flux, d_labels, prev_direction, d_i, d_cands, svars, wvars, gvars, vvars, cvars>>

\* lines 57-62: equal pair, continue
ScanSkip ==
    /\ d_pc = "scan"
    /\ d_i < Len(d_flux)
    /\ PairDirection(d_flux, d_i) = "flat"
    /\ d_i' = d_i + 1
    /\ UNCHANGED <<d_pc, d_flux, d_labels, prev_direction, d_cands, svars, wvars, gvars, vvars, cvars>>

\* line 64 false: the direction did not change
ScanSame ==
    /\ d_pc = "scan"
    /\ d_i < Len(d_flux)
    /\ PairDirection(d_flux, d_i) = prev_direction
    /\ d_i' = d_i + 1
    /\ UNCHANGED <<d_pc, d_flux, d_labels, prev_direction, d_cands, svars, wvars, gvars, vvars, cvars>>

\* lines 64-92: a candidate at p = i-1, labelled or not; the direction advances
ScanCandidate ==
    /\ d_pc = "scan"
    /\ d_i < Len(d_flux)
    /\ PairDirection(d_flux, d_i) # "flat"
    /\ PairDirection(d_flux, d_i) # prev_direction
    /\ d_labels' = LabelCandidate(d_flux, d_labels, d_i - 1, prev_direction,
                                  PairDirection(d_flux, d_i))
    /\ d_cands' = Append(d_cands, d_i - 1)
    /\ prev_direction' = PairDirection(d_flux, d_i)
    /\ d_i' = d_i + 1
    /\ UNCHANGED <<d_pc, d_flux, svars, wvars, gvars, vvars, cvars>>

\* line 94
ScanReturn ==
    /\ d_pc = "scan"
    /\ d_i >= Len(d_flux)
    /\ d_pc' = "return"
    /\ UNCHANGED <<d_flux, d_labels, prev_direction, d_i, d_cands, svars, wvars, gvars, vvars, cvars>>

NextDetect ==
    \/ DetectShort
    \/ DetectEnter
    \/ InitSkip
    \/ InitFound
    \/ InitNone
    \/ ScanSkip
    \/ ScanSame
    \/ ScanCandidate
    \/ ScanReturn

SpecDetect == InitDetect /\ [][NextDetect]_vars

(* ------------------ get_inflection_points, called directly ------------ *)
\* the filters a caller can pass: None or a member of the enum
FilterInputs == {"None"} \cup InflectionType

InitSelect ==
    /\ DetectIdle
    /\ AppIdle
    /\ s_pc = "call"
    /\ s_labels \in SeqsOf(InflectionType, 0, MaxLabels)
    /\ s_flux = [k \in 1..Len(s_labels) |-> 10 * k]
    /\ s_filter \in FilterInputs
    /\ s_points = <<>>

\* lines 112-119
GetInflectionPoints ==
    /\ s_pc = "call"
    /\ s_points' = get_inflection_points(s_flux, s_labels, s_filter)
    /\ s_pc' = "return"
    /\ UNCHANGED <<s_flux, s_labels, s_filter, dvars, wvars, gvars, vvars, cvars>>

NextSelect == GetInflectionPoints

SpecSelect == InitSelect /\ [][NextSelect]_vars

(* ------------------- the graph widget, used directly ------------------ *)
\* the widths the widget is given when used directly
RenderWidths == {0, 7, 10, 23}
\* the values assigned to x_step
RenderXSteps == {-1, 0, 5}
\* the values assigned to y_high, y_low staying 0
RenderYHighs == {-1, 0, DefaultYHigh}
\* the sample lists handed to set_data
RenderFlux == {[k \in 1..n |-> 10 * k] : n \in 0..MaxRenderLen}
\* the values assigned to scroll_offset for n samples
RenderOffsets(n) == (-1)..(n + 1)

\* a widget that was constructed, handed samples and labels (the labels
\* shorter than, as long as or longer than the samples) and given settings
InitRender ==
    /\ DetectIdle
    /\ SelectIdle
    /\ VideoIdle
    /\ MainWindowConstructed
    /\ graph_flux \in RenderFlux
    /\ graph_labels \in {AllNormal(m) : m \in 0..(Len(graph_flux) + 1)}
    /\ y_low = 0
    /\ y_high \in RenderYHighs
    /\ x_step \in RenderXSteps
    /\ width \in RenderWidths
    /\ scroll_offset = 0
    /\ visible_start = 0
    /\ visible_end = 0
    /\ dirty = TRUE
    /\ painted = NoPaint
    /\ ret = NoRet

\* graph.scroll_offset = value, assigned from outside the widget
AssignOffset ==
    /\ \E value \in RenderOffsets(Len(graph_flux)) \ {scroll_offset} :
          scroll_offset' = value
    /\ Unpainted
    /\ UNCHANGED <<graph_flux, graph_labels, y_low, y_high, x_step,
                   visible_start, visible_end, width, dirty, wvars, dvars,
                   svars, vvars>>

\* a call of GraphWidget.points_per_screen(), lines 76-79
CallPointsPerScreen ==
    /\ ret' = [fn |-> "points_per_screen",
               val |-> points_per_screen(width, x_step),
               divisors |-> PointsPerScreenDivisors(x_step)]
    /\ painted' = NoPaint
    /\ UNCHANGED <<wvars, gvars, dvars, svars, vvars>>

\* a call of GraphWidget.max_scroll(), lines 81-82
CallMaxScroll ==
    /\ ret' = [fn |-> "max_scroll",
               val |-> max_scroll(Len(graph_flux), width, x_step),
               divisors |-> PointsPerScreenDivisors(x_step)]
    /\ painted' = NoPaint
    /\ UNCHANGED <<wvars, gvars, dvars, svars, vvars>>

NextRender ==
    \/ AssignOffset
    \/ CallPointsPerScreen
    \/ CallMaxScroll
    \/ Paint
    \/ ToPixmap

SpecRender == InitRender /\ [][NextRender]_vars

\* the statement-level run and the function agree on the returned labels
DetectRunIsFunction ==
    d_pc = "return" => d_labels = detect_inflections(d_flux)

(* ----------------------- claims: detect_inflections ------------------- *)
\* the label the source writes labels[p]
LabelAt(p) == At(d_labels, p)
\* the indices of the label list
LabelIdx == 0..(Len(d_labels) - 1)
\* the strict valley flux[p-2] > flux[p-1] > flux[p] < flux[p+1] < flux[p+2]
Valley(f, p) ==
    /\ 2 <= p /\ p <= Len(f) - 3
    /\ f[p - 1] > f[p] /\ f[p] > f[p + 1]
    /\ f[p + 1] < f[p + 2] /\ f[p + 2] < f[p + 3]
\* the strict peak flux[p-2] < flux[p-1] < flux[p] > flux[p+1] > flux[p+2]
Peak(f, p) ==
    /\ 2 <= p /\ p <= Len(f) - 3
    /\ f[p - 1] < f[p] /\ f[p] < f[p + 1]
    /\ f[p + 1] > f[p + 2] /\ f[p + 2] > f[p + 3]

\* C1: an index p is labelled DownToUp only if 2 <= p <= n-3 and the five
\* samples around p form a strict valley, and UpToDown only if they form a
\* strict peak; a candidate without that support stays Normal.
C1_FivePointRule ==
    \A p \in LabelIdx :
        /\ LabelAt(p) = DOWN_TO_UP => Valley(d_flux, p)
        /\ LabelAt(p) = UP_TO_DOWN => Peak(d_flux, p)

\* C1 witness: a finished call that labelled a valley and also rejected a
\* candidate that had two samples on each side.
C1_Witness ==
    /\ d_pc = "return"
    /\ \E p \in LabelIdx : LabelAt(p) = DOWN_TO_UP
    /\ \E k \in 1..Len(d_cands) :
          /\ d_cands[k] >= 2 /\ d_cands[k] + 2 < Len(d_flux)
          /\ LabelAt(d_cands[k]) = NORMAL

\* C2: no index within 2 samples of either end is ever labelled: labels[p]
\* is Normal whenever p < 2 or p + 2 >= n.
C2_EndsStayNormal ==
    \A p \in LabelIdx :
        (p < 2 \/ p + 2 >= Len(d_flux)) => LabelAt(p) = NORMAL

\* C2 witness: a finished call that raised a candidate at index 1 and one
\* at index n-2.
C2_Witness ==
    /\ d_pc = "return"
    /\ \E k \in 1..Len(d_cands) : d_cands[k] = 1
    /\ \E k \in 1..Len(d_cands) : d_cands[k] = Len(d_flux) - 2

\* C3: every call returns a label list as long as the input whose entries
\* are each one of Normal, DownToUp, UpToDown; until it returns the call
\* can always take its next statement and its loop indices stay >= 1, so
\* flux[i-1] and flux[i] exist.
C3_TotalSameLength ==
    /\ d_pc = "return" =>
          /\ Len(d_labels) = Len(d_flux)
          /\ \A k \in 1..Len(d_labels) : d_labels[k] \in InflectionType
    /\ d_pc \in {"init", "scan"} => d_i >= 1
    /\ d_pc \in {"entry", "init", "scan"} => ENABLED NextDetect

\* C3 witness: a call on five or more equal samples has returned.
C3_Witness ==
    /\ d_pc = "return"
    /\ Len(d_flux) >= 5
    /\ prev_direction = "none"

\* C4: a sequence of fewer than 5 samples gets all-Normal labels.
C4_ShortAllNormal ==
    (d_pc = "return" /\ Len(d_flux) < 5) =>
        d_labels = [k \in 1..Len(d_flux) |-> NORMAL]

\* C4 witness: a call on 4 samples that go down and then up has returned.
C4_Witness ==
    /\ d_pc = "return"
    /\ Len(d_flux) = 4
    /\ d_flux[1] > d_flux[2] /\ d_flux[2] < d_flux[3]

StrictlyIncreasing(f) == \A k \in 1..(Len(f) - 1) : f[k] < f[k + 1]
StrictlyDecreasing(f) == \A k \in 1..(Len(f) - 1) : f[k] > f[k + 1]

\* C5: on a strictly increasing or strictly decreasing sequence no
\* candidate is ever raised and the returned labels are all Normal.
C5_MonotonicAllNormal ==
    (StrictlyIncreasing(d_flux) \/ StrictlyDecreasing(d_flux)) =>
        /\ d_cands = <<>>
        /\ d_pc = "return" => \A p \in LabelIdx : LabelAt(p) = NORMAL

\* C5 witness: a call on a strictly increasing sequence of the greatest
\* length tried has gone through the scan and returned.
C5_Witness ==
    /\ d_pc = "return"
    /\ Len(d_flux) = MaxLen
    /\ StrictlyIncreasing(d_flux)
    /\ d_i = Len(d_flux)

(* --------------------- claims: get_inflection_points ------------------ *)
\* the indices in a returned list of (index, flux value, type) tuples
IndicesOf(pts) == {pts[k][1] : k \in 1..Len(pts)}
\* the 0-based indices of the labels satisfying a condition
SelIdx == 0..(Len(s_labels) - 1)

\* C6 as stated: for every requested type, Normal included, the indices
\* returned are exactly those whose label equals it; without a filter they
\* are exactly the indices whose label is not Normal.
C6_Original ==
    s_pc = "return" =>
        IndicesOf(s_points) =
            IF s_filter = "None"
                THEN {k \in SelIdx : At(s_labels, k) # NORMAL}
                ELSE {k \in SelIdx : At(s_labels, k) = s_filter}

\* C6 amended: for a requested type DownToUp or UpToDown the indices
\* returned are exactly those whose label equals it; for the requested type
\* Normal nothing is returned; without a filter they are exactly the
\* indices whose label is not Normal.  Each tuple carries flux[i] and
\* labels[i] of its index i.
C6_SelectsRequestedReversals ==
    s_pc = "return" =>
        /\ IndicesOf(s_points) =
              IF s_filter = "None"
                  THEN {k \in SelIdx : At(s_labels, k) # NORMAL}
              ELSE IF s_filter = NORMAL THEN {}
              ELSE {k \in SelIdx : At(s_labels, k) = s_filter}
        /\ \A k \in 1..Len(s_points) :
              /\ s_points[k][2] = At(s_flux, s_points[k][1])
              /\ s_points[k][3] = At(s_labels, s_points[k][1])

\* C6 witness: a call with the filter DownToUp on labels holding Normal,
\* DownToUp and UpToDown entries has returned a non-empty list.
C6_Witness ==
    /\ s_pc = "return"
    /\ s_filter = DOWN_TO_UP
    /\ s_points # <<>>
    /\ \E k \in SelIdx : At(s_labels, k) = UP_TO_DOWN
    /\ \E k \in SelIdx : At(s_labels, k) = NORMAL

(* ------------------------ claims: the window -------------------------- *)
StrictlyAscending(q) == \A k \in 1..(Len(q) - 1) : q[k] < q[k + 1]
\* the indices in the list _update_inflection_list last got back
PointIndices == [k \in 1..Len(points) |-> points[k][1]]
\* the 0-based indices whose label is the type the Show box selects
ShownIdx == {i \in 0..(Len(labels) - 1) : At(labels, i) = FilterOfShow(cmb_show)}

\* C7 as stated: the sequence get_inflection_points returned and the list
\* passed to subsample_video are both strictly ascending and 1-based, each
\* element being the 0-based index of a matching label plus 1.
C7_Original ==
    /\ flux # <<>> =>
          /\ StrictlyAscending(PointIndices)
          /\ SeqRange(PointIndices) = {i + 1 : i \in ShownIdx}
    /\ video_call.called =>
          /\ StrictlyAscending(video_call.frame_indices)
          /\ SeqRange(video_call.frame_indices) = {i + 1 : i \in ShownIdx}

\* C7 amended: the sequence get_inflection_points returned is strictly
\* ascending and holds the 0-based indices of the matching labels; the
\* list passed to subsample_video is strictly ascending and holds exactly
\* those indices plus 1.
C7_AscendingOneBasedFrames ==
    /\ flux # <<>> =>
          /\ StrictlyAscending(PointIndices)
          /\ SeqRange(PointIndices) = ShownIdx
    /\ video_call.called =>
          /\ StrictlyAscending(video_call.frame_indices)
          /\ SeqRange(video_call.frame_indices) = {i + 1 : i \in ShownIdx}

\* C7 witness: subsample_video was called with two or more frame numbers.
C7_Witness ==
    /\ video_call.called
    /\ Len(video_call.frame_indices) >= 2

\* a run of _on_subsample_video
OnSubsampleVideo ==
    \/ OnSubsampleNoVideo
    \/ OnSubsampleNoPoints
    \/ OnSubsampleNoFfmpeg
    \/ OnSubsampleCall

\* C8: subsample_video is never called by the window while the inflection
\* list is empty or with no frame numbers; a run of _on_subsample_video on
\* an empty list shows a warning box and makes no call; a call of
\* subsample_video without frame numbers starts no ffmpeg subprocess and
\* goes nowhere but to its raise.
C8_NoEmptyExtraction ==
    /\ [](video_call.called =>
            (video_call.frame_indices # <<>> /\ list_inflections # <<>>))
    /\ []((v_pc # "idle" /\ v_frame_indices = <<>>) =>
            (v_runs = 0 /\ v_pc \in {"check", "raised"}))
    /\ [][(list_inflections = <<>> /\ OnSubsampleVideo) =>
            (msg' \in {"No Video", "No Inflection Points"}
             /\ video_call' = NoCall)]_vars

\* C8 witness: with a video chosen and data loaded, _on_subsample_video ran
\* on an empty inflection list and warned.
C8_Witness ==
    /\ msg = "No Inflection Points"
    /\ video_path # ""
    /\ flux # <<>>
    /\ list_inflections = <<>>

\* C9: once the pending paint has been delivered, the range the widget
\* exposes is that of the formula: with n = 0 samples both ends are 0, else
\* it starts at max(0, offset) and ends before min(n, start + pps + 1).
C9_Original ==
    ~dirty =>
        IF Len(graph_flux) = 0
            THEN visible_start = 0 /\ visible_end = 0
            ELSE /\ visible_start = Max(0, scroll_offset)
                 /\ visible_end + 1 =
                      Min(Len(graph_flux),
                          Max(0, scroll_offset)
                              + points_per_screen(width, x_step) + 1)

\* C10: the offset the widget holds lies in [0, maxOffset] for the current
\* sample count, width and x step.
C10_Original ==
    /\ 0 <= scroll_offset
    /\ scroll_offset <= max_scroll(Len(graph_flux), width, x_step)

\* a failed load: parse_flux_file raised inside _on_find_data
FailedLoad == OnFindDataError

\* C11: whenever a handler has returned, the window's labels are
\* detect_inflections of the window's samples, as long as the samples, and
\* the graph widget holds the same samples and labels; a load that fails
\* in the parser changes none of the four.
C11_SnapshotConsistent ==
    /\ [](/\ labels = detect_inflections(flux)
          /\ Len(labels) = Len(flux)
          /\ graph_flux = flux
          /\ graph_labels = labels)
    /\ [][FailedLoad =>
            UNCHANGED <<flux, labels, graph_flux, graph_labels>>]_vars

\* C11 witness: a load failed while the window held samples with a labelled
\* reversal from an earlier load.
C11_Witness ==
    /\ msg = "Error Loading Data"
    /\ flux # <<>>
    /\ \E k \in 1..Len(labels) : labels[k] # NORMAL

\* the 0-based sample index each displayed item stands for
ListedIdx ==
    [k \in 1..Len(list_inflections) |->
        ParseInt(list_inflections[k][1]).val - 1]

\* C12: whenever a handler has returned, the displayed inflection list is
\* the selection from the current labels under the current Show filter:
\* one item per sample whose label is the filter's type, in ascending
\* order, each with that sample's 1-based number, value and label.
C12_ListIsCurrentSelection ==
    /\ Len(list_inflections) = Cardinality(ShownIdx)
    /\ SeqRange(ListedIdx) = ShownIdx
    /\ StrictlyAscending(ListedIdx)
    /\ \A k \in 1..Len(list_inflections) :
          /\ ParseInt(list_inflections[k][1]).ok
          /\ list_inflections[k][2] = At(flux, ListedIdx[k])
          /\ list_inflections[k][3] = At(labels, ListedIdx[k])

\* C12 witness: with samples loaded the Show box was switched to the down
\* points and the list shows some.
C12_Witness ==
    /\ flux # <<>>
    /\ cmb_show = 0
    /\ list_inflections # <<>>
    /\ \E k \in 1..Len(labels) : labels[k] = DOWN_TO_UP

(* ------------------------ claims: the viewport ------------------------ *)
\* C14: max_scroll returns max(0, n - pointsPerScreen) for the n samples
\* held: never a negative number, and 0 whenever n <= pointsPerScreen.
C14_MaxOffsetFormula ==
    ret.fn = "max_scroll" =>
        LET n == Len(graph_flux)
            pps == points_per_screen(width, x_step)
        IN /\ ret.val = (IF n - pps > 0 THEN n - pps ELSE 0)
           /\ ret.val >= 0
           /\ n <= pps => ret.val = 0

\* C14 witness: max_scroll was called on a widget holding samples, but
\* fewer than fit on the screen.
C14_Witness ==
    /\ ret.fn = "max_scroll"
    /\ Len(graph_flux) > 0
    /\ Len(graph_flux) < points_per_screen(width, x_step)

\* C15: points_per_screen returns max(1, floor(width / x_step)) when
\* x_step > 0 and 1 when x_step <= 0; the result is at least 1 for every
\* width, 0 included, and the division never has the divisor 0.
C15_PointsPerScreenFormula ==
    ret.fn = "points_per_screen" =>
        /\ ret.val >= 1
        /\ 0 \notin ret.divisors
        /\ x_step <= 0 => (ret.val = 1 /\ ret.divisors = {})
        /\ x_step > 0 =>
              \E q \in 0..width :
                  /\ q * x_step <= width
                  /\ width < (q + 1) * x_step
                  /\ ret.val = (IF q >= 1 THEN q ELSE 1)

\* C15 witness: points_per_screen was called at width 0 with a positive
\* x_step.
C15_Witness ==
    /\ ret.fn = "points_per_screen"
    /\ width = 0
    /\ x_step > 0

\* a run of _paint, from a paint event or from to_pixmap
RunsPaint == Paint \/ ToPixmap

C19_RenderReadsInRange ==
    /\ painted.mapped \subseteq 0..(Len(graph_flux) - 1)
    /\ painted.flux_read \subseteq 0..(Len(graph_flux) - 1)
    /\ painted.labels_read \subseteq 0..(Len(graph_labels) - 1)

\* C19 witness: _paint drew samples with a negative scroll_offset on a
\* widget whose labels are shorter than its samples.
C19_Witness ==
    /\ painted.returned = "end"
    /\ scroll_offset < 0
    /\ Len(graph_labels) < Len(graph_flux)
    /\ painted.flux_read # {}
    /\ painted.labels_read # {}

(* ---------------------- claims: subsample_video ----------------------- *)
\* the frames that were copied into the selected directory
KeptFrames == {r.frame : r \in v_selected}

LocalDir(j) ==
    IF At(d_flux, j) > At(d_flux, j - 1) THEN "up"
    ELSE IF At(d_flux, j) < At(d_flux, j - 1) THEN "down"
    ELSE "flat"
\* the indices j whose pair (j-1, j) is unequal
UnequalPairs == {j \in 1..(Len(d_flux) - 1) : LocalDir(j) # "flat"}
\* the pair the tracked direction stands for while the scan is at d_i: the
\* last unequal pair already passed, or the first unequal pair of all
TrackedPair ==
    LET passed == {j \in UnequalPairs : j < d_i}
    IN IF passed # {}
          THEN CHOOSE j \in passed : \A k \in passed : k <= j
          ELSE CHOOSE j \in UnequalPairs : \A k \in UnequalPairs : j <= k
\* the scan passes the pair (d_i - 1, d_i)
ScanStep == d_pc = "scan" /\ d_i' = d_i + 1
\* the candidate at p has the 5-point support of its kind
Supported(p) == Valley(d_flux, p) \/ Peak(d_flux, p)

\* C17: a step of the scan over an unequal pair leaves the tracked
\* direction equal to that pair's direction, whether it labelled the
\* candidate or not, and a step over an equal pair leaves it as it was; so
\* during the scan the tracked direction is that of the last unequal pair
\* passed, successive candidates alternate between down->up and up->down,
\* and at the return every candidate with the 5-point support is labelled,
\* also after rejected ones.
C17_DirectionAdvancesOnReject ==
    /\ [][ScanStep =>
            prev_direction' = (IF LocalDir(d_i) # "flat" THEN LocalDir(d_i)
                               ELSE prev_direction)]_vars
    /\ [](d_pc = "scan" => prev_direction = LocalDir(TrackedPair))
    /\ [](\A k \in 1..(Len(d_cands) - 1) :
             /\ LocalDir(d_cands[k] + 1) # "flat"
             /\ LocalDir(d_cands[k + 1] + 1) # "flat"
             /\ LocalDir(d_cands[k] + 1) # LocalDir(d_cands[k + 1] + 1))
    /\ [](d_pc = "return" =>
             \A k \in 1..Len(d_cands) :
                 Supported(d_cands[k]) => LabelAt(d_cands[k]) # NORMAL)

\* C17 witness: a call has returned in which a candidate was rejected and
\* a later candidate was labelled, on samples holding an equal pair.
C17_Witness ==
    /\ d_pc = "return"
    /\ \E j \in 1..(Len(d_flux) - 1) : LocalDir(j) = "flat"
    /\ \E k, m \in 1..Len(d_cands) :
          /\ k < m
          /\ LabelAt(d_cands[k]) = NORMAL
          /\ LabelAt(d_cands[m]) # NORMAL

\* C18: the returned labels are those of the local classifier: labels[p]
\* is DownToUp exactly when the five samples around p form a strict valley,
\* UpToDown exactly when they form a strict peak, and Normal otherwise.
C18_LocalClassifier ==
    d_pc = "return" =>
        \A p \in LabelIdx :
            /\ LabelAt(p) = DOWN_TO_UP <=> Valley(d_flux, p)
            /\ LabelAt(p) = UP_TO_DOWN <=> Peak(d_flux, p)
            /\ LabelAt(p) = NORMAL <=>
                  ~(Valley(d_flux, p) \/ Peak(d_flux, p))

\* C18 witness: a call on six samples ordered like 10, 8, 6, 7, 9, 11 has
\* returned DownToUp at index 2 and Normal elsewhere.
C18_Witness ==
    /\ d_pc = "return"
    /\ Len(d_flux) = 6
    /\ d_flux[1] > d_flux[2] /\ d_flux[2] > d_flux[3]
    /\ d_flux[3] < d_flux[4] /\ d_flux[4] < d_flux[5]
    /\ d_flux[5] < d_flux[6]
    /\ d_labels = [k \in 1..6 |-> IF k = 3 THEN DOWN_TO_UP ELSE NORMAL]

(* ------------------ claims: scrollbar and scroll offset --------------- *)
\* C20: whenever a handler has returned, the offset the widget renders
\* from equals the value the scrollbar shows.
C20_Original == scroll_offset = scrollbar_value

(* ------------------------ claims: the range labels -------------------- *)
\* a scroll handler or a data-load handler runs to its return
ScrollOrLoad == OnScroll \/ OnFindData

\* C21: when a scroll or data-load handler returns, the range labels show
\* the visible range of the offset and samples then in effect: the left
\* label is max(0, offset) + 1 and the right label is the last sample of
\* that screen, min(n, start + pointsPerScreen + 1).
C21_Original ==
    [][ScrollOrLoad =>
        LET n == Len(flux')
            start == Max(0, scroll_offset')
            last == Min(n, start + points_per_screen(width', x_step') + 1)
        IN /\ lbl_range_start' = DecStr(start + 1)
           /\ lbl_range_end' = DecStr(last)]_vars

====
